---- MODULE Spec2Model ----
(***************************************************************************)
(* Model of SerialPortController (src/src/index.ts): the request queue,    *)
(* the current request context, the framing-mode switch and the inbound    *)
(* data handlers.                                                          *)
(*                                                                         *)
(* Strings are sequences of tokens: an inbound line such as "Temp: 23.22"  *)
(* is the one-token string <<"Temp: 23.22">>, the empty string is <<>>,    *)
(* and '\n' is the token "\n"; string concatenation is \o.  A regular      *)
(* expression is named by its source text and Test gives the lines of the  *)
(* inbound alphabet it matches.  Log events are not modelled.              *)
(***************************************************************************)
EXTENDS Naturals, Sequences, FiniteSets

VARIABLES
    isOpen,        \* this.#serial.isOpen
    current,       \* this.#current: id of the current context, or Null
    queue,         \* this.#queue: sequence of context ids
    contexts,      \* every Context created so far, indexed by id (submission order)
    binaryMode,    \* this.#binaryMode
    binaryParser,  \* this.#binaryParser: id of the parser object, or NoParser
    pipes,         \* destinations the serial port is piped to, in pipe() order
    timers,        \* ids of the contexts whose setTimeout is pending
    written,       \* what has been passed to this.#serial.write, in order
    settlements,   \* every resolveFn / rejectFn invocation, in order
    inbound,       \* the data the last step handed to an inbound handler, or NoData
    out            \* what the last handler emitted, called back or threw

vars == <<isOpen, current, queue, contexts, binaryMode, binaryParser, pipes,
          timers, written, settlements, inbound, out>>

----------------------------------------------------------------------------
(* Bounds *)

MaxRequests == 2        \* submits per behaviour
MaxBufferedLines == 2   \* lines a response buffer may hold

----------------------------------------------------------------------------
(* Values *)

Null == 0               \* this.#current is null / undefined
NoParser == 0           \* this.#binaryParser is undefined
ReadLine == 0           \* pipe destination: this.#readLineParser
NoRegex == "undefined"  \* an optional RegExp that was not supplied

NoData == <<"<no data>">>  \* the last step was not an inbound handler

EmptyStr == <<>>
NL == <<"\n">>
CRLF == <<"\r\n">>

TempRe == "/^Temp: .+$/"
ErrorRe == "/^ERROR$/"
ReadyRe == "/^READY$/"
ReadyLooseRe == "/READY/"
AnyRe == "/^.+$/"

\* Lines the line framer can deliver.  The framer pushes what stands before
\* each delimiter, and a stream emits no 'data' for an empty chunk, so the
\* empty line is not among them.
Lines == { <<"getTemp">>, <<"Received: getTemp">>, <<"Temp: 23.22">>,
           <<"ERROR">>, <<"READY">> }

\* Chunks the binary framer can deliver
Chunks == { <<"0xCAFE">> }

ErrNotOpen == <<"Error: Serial connection is not open">>
ErrTimeout == <<"Error: Timeout">>

\* RegExp.prototype.test on the inbound alphabet
Test(regex, data) ==
    CASE regex = TempRe  -> data = <<"Temp: 23.22">>
      [] regex = ErrorRe -> data = <<"ERROR">>
      [] regex = ReadyRe -> data = <<"READY">>
      [] regex = ReadyLooseRe -> data = <<"READY">>
      [] regex = AnyRe   -> data # EmptyStr /\ \A i \in 1..Len(data) : data[i] # "\n"
      [] OTHER           -> FALSE

\* request.data is a Buffer or a string
Text(s) == [buffer |-> FALSE, val |-> s]
Buf(s) == [buffer |-> TRUE, val |-> s]

\* The requests a caller passes to regexRequest
RegexRequests ==
    { [data |-> Text(<<"getTemp">>), timeoutMs |-> 0, successRegex |-> TempRe,
       errorRegex |-> NoRegex, bufferRegex |-> NoRegex],
      [data |-> Text(<<"getTemp">>), timeoutMs |-> 50, successRegex |-> TempRe,
       errorRegex |-> ErrorRe, bufferRegex |-> TempRe],
      [data |-> Buf(<<"getTemp">>), timeoutMs |-> 50, successRegex |-> AnyRe,
       errorRegex |-> ErrorRe, bufferRegex |-> NoRegex] }

\* The requests a caller passes to binaryRequest
BinaryRequests ==
    { [data |-> Buf(<<"0x01">>), interval |-> 20, maxBufferSize |-> 64] }

\* options.handlers: patterns of the unsolicited handlers, in registration order
handlers == << ReadyRe, ReadyLooseRe >>

----------------------------------------------------------------------------
(* Helpers *)

Range(s) == { s[i] : i \in 1..Len(s) }

\* Readable.unpipe(dest): removes the first occurrence of dest, if any
Unpipe(p, dest) ==
    IF dest \notin Range(p) THEN p
    ELSE LET i == CHOOSE k \in 1..Len(p) : p[k] = dest /\ \A j \in 1..(k-1) : p[j] # dest
         IN  SubSeq(p, 1, i-1) \o SubSeq(p, i+1, Len(p))

\* Readable.pipe(dest)
Pipe(p, dest) == Append(p, dest)

\* Number of lines held in a response buffer
NumLines(response) ==
    IF response = EmptyStr THEN 0
    ELSE 1 + Cardinality({ i \in 1..Len(response) : response[i] = "\n" })

Settle(s, id, kind, value) == Append(s, [id |-> id, kind |-> kind, value |-> value])

----------------------------------------------------------------------------
(* Framing-mode switch *)

\* #enableBinaryMode: the pipes, flag and parser after the call; the new
\* InterByteTimeoutParser is named by the id of the context it is made for
EnableBinaryMode(p, bm, bp, id) ==
    LET p1 == IF bm THEN Unpipe(p, bp) ELSE Unpipe(p, ReadLine)
    IN  [pipes |-> Pipe(p1, id), binaryMode |-> TRUE, binaryParser |-> id]

\* #disableBinaryMode: the pipes after the call (the flag is not written)
DisableBinaryMode(p, bm, bp) ==
    IF bm THEN Pipe(Unpipe(p, bp), ReadLine) ELSE p

----------------------------------------------------------------------------
(* Queue processing *)

\* this.#queue.push(context)
Enqueue(q, id) == Append(q, id)

\* Variant of Idle: the submit runs the queue whether or not a request is current
IdleAlways == TRUE

\* Variant of Idle: the submit looks at the queue instead of the current context
IdleQueueEmpty == queue = <<>>

\* Variant of Idle: the test is inverted
IdleInverted == current # Null

\* `if (!this.#current)` in regexRequest / binaryRequest
Idle == current = Null

\* Variant of ClearTimeout: the pending timer is left armed
ClearTimeoutSkipped(tm, ctxs, cur) == tm

\* clearTimeout(this.#current.timeoutFn), guarded by `if (this.#current.timeoutFn)`
ClearTimeout(tm, ctxs, cur) ==
    IF cur # Null /\ ctxs[cur].mode = "regex" /\ ctxs[cur].timeoutFn
    THEN tm \ {cur} ELSE tm

\* Variant of ArmsTimer: a timer is armed whatever timeoutMs is
ArmsTimerAlways(request) == TRUE

\* Variant of ArmsTimer: no timer is ever armed
ArmsTimerNever(request) == FALSE

\* `if (next.regex.timeoutMs > 0)`
ArmsTimer(request) == request.timeoutMs > 0

\* The argument of this.#serial.write for a request
WriteArg(id, request) ==
    [id |-> id, binary |-> request.data.buffer,
     data |-> IF request.data.buffer THEN request.data.val
              ELSE request.data.val \o CRLF]

\* #processQueue, run on the queue q, contexts ctxs, settlements s, pipes p
\* and pending timers tm its caller has produced
ProcessQueue(q, ctxs, s, p, tm) ==
    LET tm1 == ClearTimeout(tm, ctxs, current)
    IN  IF q = <<>>
        THEN /\ current' = Null
             /\ queue' = q
             /\ contexts' = ctxs
             /\ settlements' = s
             /\ pipes' = p
             /\ timers' = tm1
             /\ UNCHANGED <<binaryMode, binaryParser, written>>
        ELSE LET next == Head(q)
                 request == ctxs[next].request
             IN  /\ current' = next
                 /\ queue' = Tail(q)
                 /\ IF ~isOpen
                    THEN /\ settlements' = Settle(s, next, "reject", ErrNotOpen)
                         /\ contexts' = ctxs
                         /\ pipes' = p
                         /\ timers' = tm1
                         /\ UNCHANGED <<binaryMode, binaryParser, written>>
                    ELSE /\ settlements' = s
                         /\ written' = Append(written, WriteArg(next, request))
                         /\ IF ctxs[next].mode = "regex"
                            THEN /\ IF ArmsTimer(request)
                                    THEN /\ timers' = tm1 \cup {next}
                                         /\ contexts' = [ctxs EXCEPT ![next].timeoutFn = TRUE]
                                    ELSE /\ timers' = tm1
                                         /\ contexts' = ctxs
                                 /\ pipes' = p
                                 /\ UNCHANGED <<binaryMode, binaryParser>>
                            ELSE LET e == EnableBinaryMode(p, binaryMode, binaryParser, next)
                                 IN  /\ pipes' = e.pipes
                                     /\ binaryMode' = e.binaryMode
                                     /\ binaryParser' = e.binaryParser
                                     /\ timers' = tm1
                                     /\ contexts' = ctxs

----------------------------------------------------------------------------
(* Public operations *)

\* The Context regexRequest builds (bufferRegex defaulted)
RegexContext(request) ==
    [mode |-> "regex",
     request |-> [request EXCEPT !.bufferRegex =
                     IF request.bufferRegex = NoRegex THEN AnyRe ELSE @],
     timeoutFn |-> FALSE,
     response |-> EmptyStr]

\* The Context binaryRequest builds
BinaryContext(request) ==
    [mode |-> "binary", request |-> request]

\* Common tail of regexRequest / binaryRequest: push, then run if idle
Submit(context) ==
    /\ Len(contexts) < MaxRequests
    /\ LET id == Len(contexts) + 1
           ctxs == Append(contexts, context)
           q == Enqueue(queue, id)
       IN  IF Idle
           THEN ProcessQueue(q, ctxs, settlements, pipes, timers)
           ELSE /\ queue' = q
                /\ contexts' = ctxs
                /\ UNCHANGED <<current, settlements, pipes, timers,
                               binaryMode, binaryParser, written>>
    /\ out' = {}
    /\ inbound' = NoData
    /\ UNCHANGED isOpen

regexRequest == \E request \in RegexRequests : Submit(RegexContext(request))

binaryRequest == \E request \in BinaryRequests : Submit(BinaryContext(request))

\* open(): the port opens (an already open port reports an error, no change)
open ==
    /\ isOpen' = TRUE
    /\ out' = {}
    /\ inbound' = NoData
    /\ UNCHANGED <<current, queue, contexts, binaryMode, binaryParser, pipes,
                   timers, written, settlements>>

\* close()
close ==
    /\ isOpen' = FALSE
    /\ out' = {}
    /\ inbound' = NoData
    /\ UNCHANGED <<current, queue, contexts, binaryMode, binaryParser, pipes,
                   timers, written, settlements>>

----------------------------------------------------------------------------
(* Inbound data *)

\* request.errorRegex && request.errorRegex.test(data)
IsError(request, data) ==
    request.errorRegex # NoRegex /\ Test(request.errorRegex, data)

\* Variant of NotEcho: the comparison with the payload is missing
NotEchoMissing(request, data) == TRUE

\* request.data !== data (a Buffer is never identical to a string)
NotEcho(request, data) ==
    request.data.buffer \/ request.data.val # data

\* bufferRegex && bufferRegex.test(data) && request.data !== data
IsBuffered(request, data) ==
    /\ request.bufferRegex # NoRegex
    /\ Test(request.bufferRegex, data)
    /\ NotEcho(request, data)

\* Variant of AppendResponse: the line replaces the buffer
AppendResponseOverwrite(response, data) == data

\* the response after `response += data` or `response += '\n' + data`
AppendResponse(response, data) ==
    IF response = EmptyStr THEN response \o data ELSE response \o NL \o data

\* request.successRegex.test(data)
IsSuccess(request, data) == Test(request.successRegex, data)

\* Variant of FirstHandler: the last matching handler wins
LastHandler(data) ==
    IF \E i \in 1..Len(handlers) : Test(handlers[i], data)
    THEN CHOOSE i \in 1..Len(handlers) :
            /\ Test(handlers[i], data)
            /\ \A j \in (i+1)..Len(handlers) : ~Test(handlers[j], data)
    ELSE 0

\* Index of the first handler whose pattern matches, 0 if none
FirstHandler(data) ==
    IF \E i \in 1..Len(handlers) : Test(handlers[i], data)
    THEN CHOOSE i \in 1..Len(handlers) :
            /\ Test(handlers[i], data)
            /\ \A j \in 1..(i-1) : ~Test(handlers[j], data)
    ELSE 0

Callback(i) == IF i = 1 THEN "callback1" ELSE "callback2"

\* Variant of Buffered: the line that resolves the request is not buffered
BufferedUnlessSuccess(ctx, data) ==
    IF IsBuffered(ctx.request, data) /\ ~IsSuccess(ctx.request, data)
    THEN AppendResponse(ctx.response, data) ELSE ctx.response

\* The response buffer of the current context after seeing data
Buffered(ctx, data) ==
    IF IsBuffered(ctx.request, data)
    THEN AppendResponse(ctx.response, data) ELSE ctx.response

\* Variant of Classify: the success pattern is tested before the error pattern
ClassifySuccessFirst(request, data) ==
    IF IsSuccess(request, data) THEN "success"
    ELSE IF IsError(request, data) THEN "error"
    ELSE "none"

\* What the correlation part of #handleStringData decides for data:
\* "error", "success" or "none"
Classify(request, data) ==
    IF IsError(request, data) THEN "error"
    ELSE IF IsSuccess(request, data) THEN "success"
    ELSE "none"

\* #handleStringData(data): a line from the line framer
handleStringData(data) ==
    /\ isOpen
    /\ ReadLine \in Range(pipes)
    /\ inbound' = data
    /\ UNCHANGED isOpen
    /\ IF FirstHandler(data) # 0
       THEN /\ out' = {Callback(FirstHandler(data))}
            /\ UNCHANGED <<current, queue, contexts, binaryMode, binaryParser,
                           pipes, timers, written, settlements>>
       ELSE IF current = Null
       THEN /\ out' = {"unexpected-data"}
            /\ UNCHANGED <<current, queue, contexts, binaryMode, binaryParser,
                           pipes, timers, written, settlements>>
       ELSE IF contexts[current].mode # "regex"
       THEN \* this.#current.regex is undefined: request.errorRegex throws
            /\ out' = {"TypeError"}
            /\ UNCHANGED <<current, queue, contexts, binaryMode, binaryParser,
                           pipes, timers, written, settlements>>
       ELSE LET ctx == contexts[current]
                kind == Classify(ctx.request, data)
            IN  /\ out' = {}
                /\ IF kind = "error"
                   THEN ProcessQueue(queue, contexts,
                            Settle(settlements, current, "reject", ctx.response),
                            pipes, timers)
                   ELSE LET response == Buffered(ctx, data)
                            ctxs == [contexts EXCEPT ![current].response = response]
                        IN  /\ NumLines(response) <= MaxBufferedLines
                            /\ IF kind = "success"
                               THEN ProcessQueue(queue, ctxs,
                                        Settle(settlements, current, "resolve", response),
                                        pipes, timers)
                               ELSE /\ contexts' = ctxs
                                    /\ UNCHANGED <<current, queue, binaryMode,
                                                   binaryParser, pipes, timers,
                                                   written, settlements>>

\* #handleBufferData(data): a chunk from a binary framer.  The 'data'
\* listener of a framer is never removed, so a framer that has been piped
\* hands on what it still holds (a second chunk of maxBufferSize bytes, the
\* flush after the quiet interval) whether or not it is still piped.
handleBufferData(data) ==
    /\ isOpen
    /\ binaryParser # NoParser
    /\ inbound' = data
    /\ UNCHANGED isOpen
    /\ IF current = Null
       THEN \* emits 'unexpected-data', then this.#current.resolveFn throws
            /\ out' = {"unexpected-data", "TypeError"}
            /\ UNCHANGED <<current, queue, contexts, binaryMode, binaryParser,
                           pipes, timers, written, settlements>>
       ELSE /\ out' = {}
            /\ ProcessQueue(queue, contexts,
                   Settle(settlements, current, "resolve", data),
                   DisableBinaryMode(pipes, binaryMode, binaryParser), timers)

\* Variant of timeoutFn: the callback rejects but does not run the queue
timeoutFnNoAdvance(next) ==
    /\ next \in timers
    /\ out' = {}
    /\ inbound' = NoData
    /\ timers' = timers \ {next}
    /\ settlements' = Settle(settlements, next, "reject", ErrTimeout)
    /\ UNCHANGED <<isOpen, current, queue, contexts, binaryMode, binaryParser,
                   pipes, written>>

\* The setTimeout callback armed in #processQueue for context next
timeoutFn(next) ==
    /\ next \in timers
    /\ out' = {}
    /\ inbound' = NoData
    /\ UNCHANGED isOpen
    /\ ProcessQueue(queue, contexts,
           Settle(settlements, next, "reject", ErrTimeout),
           pipes, timers \ {next})

----------------------------------------------------------------------------
(* Specification *)

Init ==
    /\ isOpen = FALSE
    /\ current = Null
    /\ queue = <<>>
    /\ contexts = <<>>
    /\ binaryMode = FALSE
    /\ binaryParser = NoParser
    /\ pipes = <<ReadLine>>
    /\ timers = {}
    /\ written = <<>>
    /\ settlements = <<>>
    /\ inbound = NoData
    /\ out = {}

Next ==
    \/ regexRequest
    \/ binaryRequest
    \/ open
    \/ close
    \/ \E data \in Lines : handleStringData(data)
    \/ \E data \in Chunks : handleBufferData(data)
    \/ \E next \in 1..MaxRequests : timeoutFn(next)

Spec == Init /\ [][Next]_vars

\* The controller after the constructor and a successful open()
InitOpen ==
    /\ isOpen = TRUE
    /\ current = Null
    /\ queue = <<>>
    /\ contexts = <<>>
    /\ binaryMode = FALSE
    /\ binaryParser = NoParser
    /\ pipes = <<ReadLine>>
    /\ timers = {}
    /\ written = <<>>
    /\ settlements = <<>>
    /\ inbound = NoData
    /\ out = {}

\* regexRequest with a request whose timeoutMs is positive
regexRequestTimed ==
    \E request \in { r \in RegexRequests : r.timeoutMs > 0 } :
        Submit(RegexContext(request))

\* The port stays open and only correlated requests with a timeout are made
NextLive ==
    \/ regexRequestTimed
    \/ \E data \in Lines : handleStringData(data)
    \/ \E next \in 1..MaxRequests : timeoutFn(next)

\* A pending setTimeout callback is eventually run by the event loop
SpecLive ==
    /\ InitOpen
    /\ [][NextLive]_vars
    /\ \A next \in 1..MaxRequests : WF_vars(timeoutFn(next))

----------------------------------------------------------------------------
(* Properties *)

Settled(id) == \E i \in 1..Len(settlements) : settlements[i].id = id

Last(s) == s[Len(s)]

\* String.prototype.split('\n')
RECURSIVE SplitLines(_)
SplitLines(s) ==
    IF \A i \in 1..Len(s) : s[i] # "\n" THEN <<s>>
    ELSE LET k == CHOOSE i \in 1..Len(s) : s[i] = "\n" /\ \A j \in 1..(i-1) : s[j] # "\n"
         IN  <<SubSeq(s, 1, k-1)>> \o SplitLines(SubSeq(s, k+1, Len(s)))

\* The request of Scenario A and its two inbound lines
ScenarioA ==
    [data |-> Text(<<"getTemp">>), timeoutMs |-> 0, successRegex |-> TempRe,
     errorRegex |-> NoRegex, bufferRegex |-> NoRegex]
Received == <<"Received: getTemp">>
Temp == <<"Temp: 23.22">>

C2_SettlesAtMostOnce ==
    \A i, j \in 1..Len(settlements) :
        i # j => settlements[i].id # settlements[j].id

\* C3: a closed transport never stalls the queue: a context rejected with the
\* not-open error does not stay the current context, so nothing waits behind it.
C3_ClosedNeverStalls ==
    \A i \in 1..Len(settlements) :
        settlements[i].value = ErrNotOpen => current # settlements[i].id

\* C4: a submit made while the transport is closed and no request is
\* executing (no current context that is still unsettled, nothing queued) is
\* rejected within the submit with the not-open error, arming no timer and
\* writing nothing.
C4_ClosedSubmitRejects ==
    [][ ( /\ Len(contexts') = Len(contexts) + 1
          /\ ~isOpen
          /\ queue = <<>>
          /\ (current = Null \/ Settled(current)) )
        => /\ settlements' = Settle(settlements, Len(contexts'), "reject", ErrNotOpen)
           /\ timers' = timers
           /\ written' = written ]_vars

\* C5: single-flight writes: whenever a request's payload has been written,
\* every request submitted before it has already settled.
C5_SingleFlightWrites ==
    \A i \in 1..Len(written) :
        \A id \in 1..(written[i].id - 1) : Settled(id)

\* Two requests written one after the other, the second still in flight
C5_Witness ==
    /\ Len(written) = 2
    /\ current = 2
    /\ Settled(1)
    /\ ~Settled(2)

\* C6: error takes precedence over success: a line that reaches correlation
\* and matches both the error and the success pattern of the current request
\* rejects it with the buffer as it was, and does not resolve it or buffer
\* the line.
C6_ErrorPrecedence ==
    [][ ( /\ inbound' \in Lines
          /\ FirstHandler(inbound') = 0
          /\ current # Null
          /\ contexts[current].mode = "regex"
          /\ IsError(contexts[current].request, inbound')
          /\ IsSuccess(contexts[current].request, inbound') )
        => /\ settlements' =
                Settle(settlements, current, "reject", contexts[current].response)
           /\ contexts'[current].response = contexts[current].response ]_vars

\* An "ERROR" line has just rejected a request whose success pattern it matches too
C6_Witness ==
    /\ inbound = <<"ERROR">>
    /\ out = {}
    /\ settlements # <<>>
    /\ LET s == Last(settlements)
       IN  /\ s.kind = "reject"
           /\ s.value = EmptyStr
           /\ contexts[s.id].mode = "regex"
           /\ IsError(contexts[s.id].request, inbound)
           /\ IsSuccess(contexts[s.id].request, inbound)

\* C7: echo suppression: for a request with a text payload, no line of its
\* response buffer, and no line of a value it was settled with, equals the
\* payload.
C7_EchoSuppression ==
    /\ \A id \in 1..Len(contexts) :
          (contexts[id].mode = "regex" /\ ~contexts[id].request.data.buffer)
          => contexts[id].request.data.val \notin Range(SplitLines(contexts[id].response))
    /\ \A i \in 1..Len(settlements) :
          LET ctx == contexts[settlements[i].id]
          IN  (ctx.mode = "regex" /\ ~ctx.request.data.buffer)
              => ctx.request.data.val \notin Range(SplitLines(settlements[i].value))

\* The echo of the payload has just reached a request that is buffering lines
C7_Witness ==
    /\ current # Null
    /\ contexts[current].mode = "regex"
    /\ ~contexts[current].request.data.buffer
    /\ inbound = contexts[current].request.data.val
    /\ Test(contexts[current].request.bufferRegex, inbound)
    /\ contexts[current].response = Received
    /\ out = {}

\* C8: when the timer of a request fires (a pending timer goes away in a step
\* that handles no inbound data), that request is the current one and still
\* unsettled, it is rejected with the Timeout error, and in the same step the
\* head of the queue, if any, becomes the current context.
C8_TimeoutRejectsAndAdvances ==
    [][ \A id \in timers \ timers' :
          inbound' = NoData
          => /\ id = current
             /\ ~Settled(id)
             /\ contexts[id].request.timeoutMs > 0
             /\ Len(settlements') > Len(settlements)
             /\ settlements'[Len(settlements) + 1] =
                   [id |-> id, kind |-> "reject", value |-> ErrTimeout]
             /\ IF queue = <<>> THEN current' = Null
                ELSE current' = Head(queue) /\ queue' = Tail(queue) ]_vars

\* A request has timed out and the request queued behind it has been written
C8_Witness ==
    /\ inbound = NoData
    /\ settlements # <<>>
    /\ Last(settlements).value = ErrTimeout
    /\ current = Last(settlements).id + 1
    /\ written # <<>>
    /\ Last(written).id = current

\* C9: a pending timer always belongs to the current context, and that
\* context has not settled: no timer is left armed for a settled or replaced
\* context.
C9_NoTimerAfterSettlement ==
    \A id \in timers : id = current /\ ~Settled(id)

\* A request that had armed a timer was settled by an inbound line, and no
\* timer is pending for it
C9_Witness ==
    \E i \in 1..Len(settlements) :
        LET s == settlements[i]
        IN  /\ contexts[s.id].mode = "regex"
            /\ contexts[s.id].timeoutFn
            /\ s.value \notin {ErrTimeout, ErrNotOpen}
            /\ s.id \notin timers

\* C10 as stated: in Scenario A (the request is in flight, has so far buffered
\* just "Received: getTemp", which was the last line, and "Temp: 23.22"
\* arrives) the request resolves with exactly "Temp: 23.22".
C10_ScenarioA_Original ==
    [][ ( /\ current # Null
          /\ contexts[current].mode = "regex"
          /\ contexts[current].request = [ScenarioA EXCEPT !.bufferRegex = AnyRe]
          /\ ~Settled(current)
          /\ contexts[current].response = Received
          /\ inbound = Received
          /\ inbound' = Temp )
        => settlements' = Settle(settlements, current, "resolve", Temp) ]_vars

\* C10 as amended: in Scenario A the request resolves with
\* "Received: getTemp\nTemp: 23.22": the default buffer pattern buffers the
\* "Received: getTemp" line too.
C10_ScenarioA ==
    [][ ( /\ current # Null
          /\ contexts[current].mode = "regex"
          /\ contexts[current].request = [ScenarioA EXCEPT !.bufferRegex = AnyRe]
          /\ ~Settled(current)
          /\ contexts[current].response = Received
          /\ inbound = Received
          /\ inbound' = Temp )
        => settlements' =
              Settle(settlements, current, "resolve", Received \o NL \o Temp) ]_vars

\* Scenario A has played out on the first request
C10_Witness ==
    /\ inbound = Temp
    /\ contexts # <<>>
    /\ contexts[1].request = [ScenarioA EXCEPT !.bufferRegex = AnyRe]
    /\ Len(settlements) = 1
    /\ settlements[1] = [id |-> 1, kind |-> "resolve", value |-> Received \o NL \o Temp]

\* C11: a line that matches an unsolicited handler pattern calls back only
\* the first matching handler in registration order and leaves the queue, the
\* current context and its buffer, the timers, the written data and the
\* settlements as they were, whatever patterns of the current request it matches.
C11_HandlersPreempt ==
    [][ ( /\ inbound' \in Lines
          /\ \E i \in 1..Len(handlers) : Test(handlers[i], inbound') )
        => /\ \E i \in 1..Len(handlers) :
                /\ Test(handlers[i], inbound')
                /\ \A j \in 1..(i-1) : ~Test(handlers[j], inbound')
                /\ out' = {Callback(i)}
           /\ UNCHANGED <<current, queue, contexts, timers, written, settlements,
                          pipes, binaryMode, binaryParser>> ]_vars

\* "READY" has been handed to the first handler while a request whose
\* success and buffer patterns match it is in flight
C11_Witness ==
    /\ inbound = <<"READY">>
    /\ out = {"callback1"}
    /\ current # Null
    /\ contexts[current].mode = "regex"
    /\ ~Settled(current)
    /\ Test(contexts[current].request.successRegex, inbound)
    /\ Test(contexts[current].request.bufferRegex, inbound)
    /\ contexts[current].response = EmptyStr

\* A stream-capture request has been written and has not settled yet
BinaryInFlight ==
    /\ current # Null
    /\ contexts[current].mode = "binary"
    /\ ~Settled(current)

\* C12: once a stream-capture request has been resolved with a chunk, and
\* until the next one is activated, the mode flag reads line mode and the
\* line framer is the attached framer.
C12_LineModeAfterCapture ==
    ( /\ \E i \in 1..Len(settlements) :
            /\ settlements[i].kind = "resolve"
            /\ contexts[settlements[i].id].mode = "binary"
      /\ ~BinaryInFlight )
    => /\ binaryMode = FALSE
       /\ Range(pipes) = {ReadLine}

\* C13: in every reachable state the transport is piped to exactly one
\* framer: the line framer or one binary framer, never both and never none.
C13_ExactlyOneFramer ==
    Cardinality(Range(pipes)) = 1

\* A line is a candidate for the buffer of a request: it matches the buffer
\* pattern and is not identical to a text payload
Qualifies(request, m) ==
    /\ Test(request.bufferRegex, m)
    /\ ~(~request.data.buffer /\ request.data.val = m)

\* The step hands a line to the correlation logic of a correlated request
\* and the line does not match its error pattern
Correlates ==
    /\ inbound' \in Lines
    /\ \A i \in 1..Len(handlers) : ~Test(handlers[i], inbound')
    /\ current # Null
    /\ contexts[current].mode = "regex"
    /\ ~( /\ contexts[current].request.errorRegex # NoRegex
          /\ Test(contexts[current].request.errorRegex, inbound') )

C15_UnexpectedChunk ==
    [][ (inbound' \in Chunks /\ current = Null)
        => /\ out' = {"unexpected-data"}
           /\ UNCHANGED <<current, queue, contexts, settlements, pipes,
                          binaryMode, binaryParser>> ]_vars

\* C16: the current context is always unsettled.
C16_CurrentUnsettled ==
    current # Null => ~Settled(current)

\* C17: a line that reaches the correlation logic finds a correlated (regex)
\* request current, and a chunk that settles a context settles a
\* stream-capture request.
C17_DispatchByVariant ==
    [][ /\ ( /\ inbound' \in Lines
             /\ \A i \in 1..Len(handlers) : ~Test(handlers[i], inbound')
             /\ current # Null )
           => contexts[current].mode = "regex"
        /\ (inbound' \in Chunks /\ Len(settlements') > Len(settlements))
           => contexts[current].mode = "binary" ]_vars

\* C18: at most one timer is pending; it belongs to the current context,
\* which is a correlated request with timeoutMs > 0; no queued context and
\* no stream-capture context has a pending timer.
C18_OneTimer ==
    /\ Cardinality(timers) <= 1
    /\ \A id \in timers :
          /\ id = current
          /\ id \notin Range(queue)
          /\ contexts[id].mode = "regex"
          /\ contexts[id].request.timeoutMs > 0

\* A timer is pending for the current request while a stream-capture request
\* and nothing else waits in the queue
C18_Witness ==
    /\ timers = {1}
    /\ current = 1
    /\ queue = <<2>>
    /\ contexts[2].mode = "binary"

\* C19: with the port open and only correlated requests with a timeout,
\* every submitted request eventually settles and the controller eventually
\* is idle with an empty queue.
C19_EventuallySettled ==
    /\ \A id \in 1..MaxRequests : (Len(contexts) >= id) ~> Settled(id)
    /\ (current # Null) ~> (current = Null /\ queue = <<>>)

\* Two requests were made on the open port: the first timed out, the second
\* has settled too, and the controller is idle
C19_Witness ==
    /\ isOpen
    /\ Len(contexts) = 2
    /\ Len(settlements) = 2
    /\ settlements[1] = [id |-> 1, kind |-> "reject", value |-> ErrTimeout]
    /\ settlements[2].id = 2
    /\ current = Null
    /\ queue = <<>>

\* C20: when no context is current the queue is empty.
C20_IdleQueueEmpty ==
    current = Null => queue = <<>>

\* The second request waited in the queue and the controller is idle again
C20_Witness ==
    /\ current = Null
    /\ queue = <<>>
    /\ Len(written) = 2
    /\ Settled(1) /\ Settled(2)

====
